---- MODULE Spec2Model ----
(***************************************************************************)
(* A model of cut.py: the range-list parser, the selection builder, the    *)
(* complement resolver, the three record processors and the run of main(). *)
(*                                                                         *)
(* Text is a sequence of one-character strings.  Python's None is the      *)
(* empty tuple and a present value v is the one-element tuple <<v>>, so    *)
(* that None and the empty string stay distinct.  A call that can raise    *)
(* returns a record [raised, value].                                       *)
(***************************************************************************)
EXTENDS Integers, Sequences, FiniteSets, TLC

VARIABLES
    list_str,     \* the argument of the last parse_list call (Some(text)) or None
    ranges,       \* the outcome of that call: Return(RangeList) or Raise("ValueError")
    length,       \* the length given to the last build_selection call
    selection,    \* the selection held by the caller: None before build_selection
    comp_in,      \* the argument of the last complement_selection call, or None
    call,         \* the arguments of the last process_* call, or None
    result,       \* the outcome of that call: [raised, value, indexed]
    pc,           \* the position of main()
    args,         \* the parsed command line (argparse's namespace)
    parsed,       \* byte_ranges, char_ranges, field_ranges of main()
    files,        \* the sources main() has opened so far, in order
    fidx,         \* the index of the source main() works on
    lines,        \* the records of that source still to be processed
    stdin,        \* standard input: its content and whether it was read to the end
    stdout,       \* the writes to sys.stdout, one element per write call
    stderr        \* the writes to sys.stderr

vars == <<list_str, ranges, length, selection, comp_in, call, result,
          pc, args, parsed, files, fidx, lines, stdin, stdout, stderr>>

unitVars == <<list_str, ranges, length, selection, comp_in>>
procVars == <<call, result>>
mainVars == <<pc, args, parsed, files, fidx, lines, stdin, stdout, stderr>>

(***************************************************************************)
(* Bounds of the model.                                                    *)
(***************************************************************************)
MaxListLen == 4      \* characters of a range-list string
MaxLen == 3          \* record length given to build_selection
MaxArgLen == 3       \* characters of the range-list string behind a processor call
MaxLineLen == 3      \* characters of a record given to a processor
MaxFiles == 2        \* file arguments of a run

(***************************************************************************)
(* Python values.                                                          *)
(***************************************************************************)
None == <<>>
Some(v) == <<v>>
Val(o) == o[1]

Return(v) == [raised |-> "none", value |-> Some(v)]
Raise(e) == [raised |-> e, value |-> None]

Min(a, b) == IF a <= b THEN a ELSE b

SeqsUpTo(S, n) == UNION {[1..k -> S] : k \in 0..n}

\* s[i..j] of a sequence, empty when i > j
Slice(s, i, j) == [k \in 1..(j - i + 1) |-> s[i + k - 1]]

Digits == {"0", "1", "2", "3", "4", "5", "6", "7", "8", "9"}
Whitespace == {" "}

DigitValue(c) ==
    CASE c = "0" -> 0 [] c = "1" -> 1 [] c = "2" -> 2 [] c = "3" -> 3
      [] c = "4" -> 4 [] c = "5" -> 5 [] c = "6" -> 6 [] c = "7" -> 7
      [] c = "8" -> 8 [] c = "9" -> 9

\* str.strip(): whitespace removed at both ends
RECURSIVE lstrip(_)
lstrip(s) == IF s # <<>> /\ Head(s) \in Whitespace THEN lstrip(Tail(s)) ELSE s

RECURSIVE rstrip(_)
rstrip(s) ==
    IF s # <<>> /\ s[Len(s)] \in Whitespace THEN rstrip(SubSeq(s, 1, Len(s) - 1)) ELSE s

strip(s) == rstrip(lstrip(s))

\* True iff sub occurs in s ('sub in s' of Python, sub not empty)
Contains(s, sub) ==
    \E i \in 1..(Len(s) - Len(sub) + 1) : Slice(s, i, i + Len(sub) - 1) = sub

\* the least index at which sub occurs in s (0 if it does not)
Find(s, sub) ==
    IF Contains(s, sub)
    THEN CHOOSE i \in 1..(Len(s) - Len(sub) + 1) :
            /\ Slice(s, i, i + Len(sub) - 1) = sub
            /\ \A j \in 1..(i - 1) : Slice(s, j, j + Len(sub) - 1) # sub
    ELSE 0

\* str.split(sep): the pieces between the non-overlapping occurrences of sep,
\* scanned from the left; a string without sep is its own single piece
RECURSIVE split(_, _)
split(s, sep) ==
    LET i == Find(s, sep) IN
    IF i = 0 THEN <<s>>
    ELSE <<Slice(s, 1, i - 1)>> \o split(Slice(s, i + Len(sep), Len(s)), sep)

\* str.split(sep, 1): cut at the first occurrence of sep only
split1(s, sep) ==
    LET i == Find(s, sep) IN
    IF i = 0 THEN <<s>>
    ELSE <<Slice(s, 1, i - 1), Slice(s, i + Len(sep), Len(s))>>

\* sep.join(parts)
RECURSIVE join(_, _)
join(sep, parts) ==
    IF parts = <<>> THEN <<>>
    ELSE IF Len(parts) = 1 THEN parts[1]
    ELSE parts[1] \o sep \o join(sep, Tail(parts))

RECURSIVE DecimalValue(_)
DecimalValue(s) ==
    IF s = <<>> THEN 0
    ELSE 10 * DecimalValue(SubSeq(s, 1, Len(s) - 1)) + DigitValue(s[Len(s)])

IsDecimal(s) == s # <<>> /\ \A i \in DOMAIN s : s[i] \in Digits

\* int(s): surrounding whitespace is ignored, one leading sign is allowed, the
\* rest must be decimal digits; anything else raises ValueError.  Of the signs
\* only '-' is modelled, and neither '_' nor other whitespace than the blank:
\* the list strings of the model are written over ListAlphabet.
int(s) ==
    LET t == strip(s) IN
    IF t # <<>> /\ Head(t) = "-"
    THEN IF IsDecimal(Tail(t)) THEN Return(0 - DecimalValue(Tail(t)))
         ELSE Raise("ValueError")
    ELSE IF IsDecimal(t) THEN Return(DecimalValue(t))
         ELSE Raise("ValueError")

\* sorted(set of integers)
RECURSIVE sorted(_)
sorted(S) ==
    IF S = {} THEN <<>>
    ELSE LET m == CHOOSE x \in S : \A y \in S : x <= y
         IN <<m>> \o sorted(S \ {m})

(***************************************************************************)
(* parse_list                                                              *)
(***************************************************************************)
\* a parser that reads a bare '-' as the range from 1 to the end of the record
BareDashAsOpenRange == Some(Return(<<1, None>>))

\* a part with both sides of the '-' empty: `continue`, nothing is appended
BareDash == None

\* one part of the list: None when it is dropped (a bare '-'), else the
\* outcome of the conversion, Return(<<start, end>>) or Raise("ValueError")
ParsePart(raw) ==
    LET part == strip(raw) IN
    IF Contains(part, <<"-">>)
    THEN LET pieces == split1(part, <<"-">>)
             start_str == pieces[1]
             end_str == pieces[2]
         IN IF start_str = <<>> /\ end_str = <<>> THEN BareDash
            ELSE IF start_str = <<>>
                 THEN LET e == int(end_str) IN
                      IF e.raised # "none" THEN Some(e)
                      ELSE Some(Return(<<1, Some(Val(e.value))>>))
            ELSE IF end_str = <<>>
                 THEN LET st == int(start_str) IN
                      IF st.raised # "none" THEN Some(st)
                      ELSE Some(Return(<<Val(st.value), None>>))
            ELSE LET st == int(start_str)
                     e == int(end_str)
                 IN IF st.raised # "none" THEN Some(st)
                    ELSE IF e.raised # "none" THEN Some(e)
                    ELSE Some(Return(<<Val(st.value), Some(Val(e.value))>>))
    ELSE LET v == int(part) IN
         IF v.raised # "none" THEN Some(v)
         ELSE Some(Return(<<Val(v.value), Some(Val(v.value))>>))

RECURSIVE ParseParts(_)
ParseParts(parts) ==
    IF parts = <<>> THEN Return(<<>>)
    ELSE LET p == ParsePart(Head(parts)) IN
         IF p # None /\ Val(p).raised # "none" THEN Val(p)
         ELSE LET rest == ParseParts(Tail(parts)) IN
              IF rest.raised # "none" THEN rest
              ELSE IF p = None THEN rest
              ELSE Return(<<Val(Val(p).value)>> \o Val(rest.value))

parse_list(s) == ParseParts(split(s, <<",">>))

(***************************************************************************)
(* build_selection and complement_selection                                *)
(***************************************************************************)
\* a builder that forgets to clamp the end to the record length
ClampedEndNoClamp(end, len) == IF end = None THEN Some(len) ELSE end

\* the local `end` after its two reassignments: None becomes the length, then
\* the minimum with the length is taken
ClampedEnd(end, len) ==
    LET end1 == IF end = None THEN Some(len) ELSE end
    IN Some(Min(Val(end1), len))

\* the positions of the elif branch; it tests the local `end`, which was
\* reassigned before
FallbackPositions(start, end, len) ==
    IF start <= len /\ end = None THEN start..len ELSE {}

\* the body of the loop of build_selection for one (start, end)
RangePositions(start, end, len) ==
    LET e == ClampedEnd(end, len) IN
    IF start <= Val(e) /\ Val(e) <= len THEN start..Val(e)
    ELSE FallbackPositions(start, e, len)

build_selection(rs, len) ==
    UNION {RangePositions(rs[i][1], rs[i][2], len) : i \in DOMAIN rs}

\* a complement over range(length) instead of range(1, length+1)
complement_selection_from_zero(sel, len) == (0..(len - 1)) \ sel

complement_selection(sel, len) == (1..len) \ sel

(***************************************************************************)
(* The unit calls of the selection engine: a caller parses a list, builds   *)
(* the selection for a record length and may complement it.                *)
(***************************************************************************)
ListAlphabet == {"0", "1", "2", "-", ",", " ", "x"}
ListStrings == SeqsUpTo(ListAlphabet, MaxListLen)

IdleProc == call = None /\ result = None
IdleMain ==
    /\ pc = "idle" /\ args = None /\ parsed = None /\ files = <<>>
    /\ fidx = 0 /\ lines = <<>> /\ stdin = None /\ stdout = <<>> /\ stderr = <<>>

InitSel ==
    /\ list_str = None /\ ranges = None /\ length = 0
    /\ selection = None /\ comp_in = None
    /\ IdleProc /\ IdleMain

\* the range list is parsed once, at startup
ParseList ==
    /\ list_str = None
    /\ \E s \in ListStrings :
        /\ list_str' = Some(s)
        /\ ranges' = parse_list(s)
    /\ length' = 0
    /\ selection' = None
    /\ comp_in' = None
    /\ UNCHANGED <<procVars, mainVars>>

BuildSelection ==
    /\ ranges # None /\ ranges.raised = "none"
    /\ \E n \in 0..MaxLen :
        /\ length' = n
        /\ selection' = Some(build_selection(Val(ranges.value), n))
    /\ comp_in' = None
    /\ UNCHANGED <<list_str, ranges, procVars, mainVars>>

ComplementSelection ==
    /\ selection # None
    /\ comp_in = None
    /\ comp_in' = selection
    /\ selection' = Some(complement_selection(Val(selection), length))
    /\ UNCHANGED <<list_str, ranges, length, procVars, mainVars>>

\* complement_selection called on its own, on any selection within the record
ComplementOf ==
    /\ list_str = None
    /\ comp_in = None
    /\ \E n \in 0..MaxLen : \E S \in SUBSET (1..n) :
        /\ length' = n
        /\ comp_in' = Some(S)
        /\ selection' = Some(complement_selection(S, n))
    /\ UNCHANGED <<list_str, ranges, procVars, mainVars>>

NextSel == ParseList \/ BuildSelection \/ ComplementSelection \/ ComplementOf

SpecSel == InitSel /\ [][NextSel]_vars

(***************************************************************************)
(* The record processors                                                   *)
(***************************************************************************)
\* The scalars of the modelled records and their UTF-8 encodings.  "eacute"
\* stands for U+00E9 (two bytes), "repl" for U+FFFD, the replacement character
\* of a lossy decode, and "TAB", "LF", "NUL" for the control characters.
ByteOf(c) ==
    CASE c = "a" -> <<97>> [] c = "b" -> <<98>> [] c = "c" -> <<99>>
      [] c = "d" -> <<100>> [] c = "e" -> <<101>> [] c = "h" -> <<104>>
      [] c = "l" -> <<108>> [] c = "o" -> <<111>> [] c = "," -> <<44>>
      [] c = ":" -> <<58>> [] c = "TAB" -> <<9>> [] c = "LF" -> <<10>>
      [] c = "NUL" -> <<0>> [] c = "eacute" -> <<195, 169>>
      [] c = "repl" -> <<239, 191, 189>>

AsciiOf(b) ==
    CASE b = 97 -> "a" [] b = 98 -> "b" [] b = 99 -> "c" [] b = 100 -> "d"
      [] b = 101 -> "e" [] b = 104 -> "h" [] b = 108 -> "l" [] b = 111 -> "o"
      [] b = 44 -> "," [] b = 58 -> ":" [] b = 9 -> "TAB" [] b = 10 -> "LF"
      [] b = 0 -> "NUL"

\* line.encode('utf-8', 'replace')
RECURSIVE encode(_)
encode(text) ==
    IF text = <<>> THEN <<>> ELSE ByteOf(Head(text)) \o encode(Tail(text))

\* bytes.decode('utf-8', 'replace'): a byte that starts or continues no valid
\* sequence becomes one replacement character
RECURSIVE decode(_)
decode(bs) ==
    IF bs = <<>> THEN <<>>
    ELSE IF Head(bs) < 128 THEN <<AsciiOf(Head(bs))>> \o decode(Tail(bs))
    ELSE IF Len(bs) >= 2 /\ bs[1] = 195 /\ bs[2] = 169
         THEN <<"eacute">> \o decode(Tail(Tail(bs)))
    ELSE IF Len(bs) >= 3 /\ bs[1] = 239 /\ bs[2] = 191 /\ bs[3] = 189
         THEN <<"repl">> \o decode(Tail(Tail(Tail(bs))))
    ELSE IF Len(bs) >= 2 /\ bs[1] = 239 /\ bs[2] = 191
         THEN <<"repl">> \o decode(Tail(Tail(bs)))
    ELSE <<"repl">> \o decode(Tail(bs))

\* seq[k] of Python for a 0-based k: a negative k counts from the end
ValidIndex(seq, k) == 0 - Len(seq) <= k /\ k < Len(seq)
Item(seq, k) == IF k >= 0 THEN seq[k + 1] ELSE seq[Len(seq) + k + 1]

\* [seq[i-1] for i in positions]: the positions are taken in order until one
\* raises IndexError
RECURSIVE Gather(_, _)
Gather(seq, positions) ==
    IF positions = <<>> THEN [raised |-> "none", items |-> <<>>, indexed |-> {}]
    ELSE LET i == Head(positions) IN
         IF ~ValidIndex(seq, i - 1)
         THEN [raised |-> "IndexError", items |-> <<>>, indexed |-> {i}]
         ELSE LET rest == Gather(seq, Tail(positions)) IN
              [raised |-> rest.raised,
               items |-> IF rest.raised = "none"
                         THEN <<Item(seq, i - 1)>> \o rest.items ELSE <<>>,
               indexed |-> {i} \cup rest.indexed]

\* selection of a processor: build_selection, then complement_selection when asked
Selected(rs, len, complement) ==
    LET sel == build_selection(rs, len) IN
    IF complement THEN complement_selection(sel, len) ELSE sel

process_bytes(line, rs, complement) ==
    LET b_line == encode(line)
        len == Len(b_line)
        g == Gather(b_line, sorted(Selected(rs, len, complement)))
    IN [raised |-> g.raised,
        value |-> IF g.raised = "none" THEN Some(decode(g.items)) ELSE None,
        indexed |-> g.indexed,
        length |-> len]

process_chars(line, rs, complement) ==
    LET len == Len(line)
        g == Gather(line, sorted(Selected(rs, len, complement)))
    IN [raised |-> g.raised,
        value |-> IF g.raised = "none" THEN Some(g.items) ELSE None,
        indexed |-> g.indexed,
        length |-> len]

\* a field processor without the pass-through of undelimited records
process_fields_no_passthrough(line, rs, delimiter, output_delimiter, only_delimited, complement) ==
    LET fields == split(line, delimiter)
        len == Len(fields)
        wanted == SelectSeq(sorted(Selected(rs, len, complement)),
                            LAMBDA i : 1 <= i /\ i <= len)
        g == Gather(fields, wanted)
        out_delim == IF output_delimiter = None THEN delimiter
                     ELSE Val(output_delimiter)
    IN [raised |-> g.raised,
        value |-> IF g.raised = "none" THEN Some(join(out_delim, g.items)) ELSE None,
        indexed |-> g.indexed,
        length |-> len]

process_fields(line, rs, delimiter, output_delimiter, only_delimited, complement) ==
    LET fields == split(line, delimiter)
        len == Len(fields)
    IN IF len = 1 /\ ~Contains(line, delimiter)
       THEN [raised |-> "none",
             value |-> IF only_delimited THEN None ELSE Some(line),
             indexed |-> {},
             length |-> len]
       ELSE LET wanted == SelectSeq(sorted(Selected(rs, len, complement)),
                                    LAMBDA i : 1 <= i /\ i <= len)
                g == Gather(fields, wanted)
                out_delim == IF output_delimiter = None THEN delimiter
                             ELSE Val(output_delimiter)
            IN [raised |-> g.raised,
                value |-> IF g.raised = "none" THEN Some(join(out_delim, g.items))
                          ELSE None,
                indexed |-> g.indexed,
                length |-> len]

(***************************************************************************)
(* The unit calls of the processors: one record, one parsed range list.    *)
(***************************************************************************)
LineAlphabet == {"a", "eacute", ","}
Lines == SeqsUpTo(LineAlphabet, MaxLineLen)

\* the range lists parse_list returns for the strings of at most MaxArgLen characters
RangeLists ==
    {Val(parse_list(s).value) :
        s \in {t \in SeqsUpTo(ListAlphabet, MaxArgLen) : parse_list(t).raised = "none"}}

Delimiters == {<<",">>, <<",", ",">>}
OutputDelimiters == {None, Some(<<":">>)}

\* the examples of the documentation: a record and a range-list string
ExampleChars == <<"h", "e", "l", "l", "o">>
ExampleFields == <<"a", ",", "b", ",", "c", ",", "d", ",", "e">>
Examples ==
    {<<ExampleChars, Val(parse_list(<<"1", "-", "3">>).value)>>,
     <<ExampleChars, Val(parse_list(<<"1", "-">>).value)>>,
     <<ExampleFields, Val(parse_list(<<"2", ",", "4">>).value)>>}

ProcInputs == (Lines \X RangeLists) \cup Examples

InitProc ==
    /\ call = None /\ result = None
    /\ list_str = None /\ ranges = None /\ length = 0
    /\ selection = None /\ comp_in = None
    /\ IdleMain

ProcessBytes ==
    /\ call = None
    /\ \E in \in ProcInputs, c \in BOOLEAN :
        /\ call' = Some([fn |-> "process_bytes", line |-> in[1], ranges |-> in[2],
                         complement |-> c, delimiter |-> None,
                         output_delimiter |-> None, only_delimited |-> FALSE])
        /\ result' = process_bytes(in[1], in[2], c)
    /\ UNCHANGED <<unitVars, mainVars>>

ProcessChars ==
    /\ call = None
    /\ \E in \in ProcInputs, c \in BOOLEAN :
        /\ call' = Some([fn |-> "process_chars", line |-> in[1], ranges |-> in[2],
                         complement |-> c, delimiter |-> None,
                         output_delimiter |-> None, only_delimited |-> FALSE])
        /\ result' = process_chars(in[1], in[2], c)
    /\ UNCHANGED <<unitVars, mainVars>>

ProcessFields ==
    /\ call = None
    /\ \E in \in ProcInputs, c \in BOOLEAN, d \in Delimiters,
          od \in OutputDelimiters, s \in BOOLEAN :
        /\ call' = Some([fn |-> "process_fields", line |-> in[1], ranges |-> in[2],
                         complement |-> c, delimiter |-> Some(d),
                         output_delimiter |-> od, only_delimited |-> s])
        /\ result' = process_fields(in[1], in[2], d, od, s, c)
    /\ UNCHANGED <<unitVars, mainVars>>

NextProc == ProcessBytes \/ ProcessChars \/ ProcessFields

SpecProc == InitProc /\ [][NextProc]_vars

(***************************************************************************)
(* main(): one run of the program.                                         *)
(*                                                                         *)
(* A file argument is "-" (standard input), a path that opens, with the    *)
(* content read from it, or a path that cannot be opened.                  *)
(***************************************************************************)
StdinArg == [name |-> "-", content |-> None]
FileArg(c) == [name |-> "path", content |-> Some(c)]
MissingArg == [name |-> "path", content |-> None]

Contents ==
    {<<>>,
     <<"a", "TAB", "b", "LF", "LF">>,
     <<"a", "NUL", "TAB", "b", "NUL">>}

FileArgs == {StdinArg, MissingArg} \cup {FileArg(c) : c \in Contents}

ListArgs == {None, Some(<<"0">>), Some(<<"2">>), Some(<<"3">>), Some(<<"x">>)}

\* `if x:` of Python for an optional string
Truthy(o) == o # None /\ Val(o) # <<>>

\* the loop body calls process_fields, the only reader of the delimiters and of
\* only_delimited
FieldMode(a) == ~Truthy(a.bytes) /\ ~Truthy(a.characters) /\ Truthy(a.fields)

\* The command lines of the model.  The options only process_fields reads are
\* varied when fields are selected; --help and --version are tried on short
\* command lines, where an empty -b argument stands for an absent one.
ArgSet ==
    {a \in [bytes : ListArgs, characters : ListArgs, fields : ListArgs,
            delimiter : {None, Some(<<",">>)},
            output_delimiter : {None, Some(<<":">>)},
            complement : BOOLEAN, only_delimited : BOOLEAN,
            zero_terminated : BOOLEAN,
            help : {FALSE}, version : {FALSE},
            files : SeqsUpTo(FileArgs, MaxFiles)] :
        FieldMode(a) \/ (a.delimiter = None /\ a.output_delimiter = None
                          /\ ~a.only_delimited)}
    \cup
    [bytes : {None, Some(<<>>), Some(<<"2">>)}, characters : {None}, fields : {None},
     delimiter : {None}, output_delimiter : {None},
     complement : {FALSE}, only_delimited : {FALSE}, zero_terminated : {FALSE},
     help : BOOLEAN, version : BOOLEAN,
     files : {<<>>}]

ReadsStdin(a) == a.files = <<>> \/ \E i \in DOMAIN a.files : a.files[i] = StdinArg

Init ==
    /\ pc = "start"
    /\ args \in ArgSet
    /\ stdin \in {[content |-> c, eof |-> FALSE] :
                    c \in IF ReadsStdin(args) THEN Contents ELSE {<<>>}}
    /\ parsed = None /\ files = <<>> /\ fidx = 0 /\ lines = <<>>
    /\ stdout = <<>> /\ stderr = <<>>
    /\ call = None /\ result = None
    /\ list_str = None /\ ranges = None /\ length = 0
    /\ selection = None /\ comp_in = None

VERSION == <<"cut.py 1.0">>
Usage == <<"usage: cut.py ...">>
NoModeMessage == <<"Error: You must specify one of -b, -c or -f.">>
OpenErrorMessage == <<"Error opening file">>
Traceback(e) == <<"Traceback (most recent call last)", e>>

\* an error report printed on standard output
WriteErrorToStdout(out, err, msg) == [stdout |-> Append(out, msg), stderr |-> err]

\* sys.stderr.write(msg): the streams after an error report
WriteError(out, err, msg) == [stdout |-> out, stderr |-> Append(err, msg)]

\* a loop body that writes a suppressed record as an empty line
EmitSuppressedAsEmpty(out, processed, line_terminator) ==
    IF processed # None THEN out \o <<Val(processed), <<line_terminator>>>>
    ELSE out \o <<<<>>, <<line_terminator>>>>

\* the two writes of the loop body: nothing at all for a suppressed record
Emit(out, processed, line_terminator) ==
    IF processed # None THEN out \o <<Val(processed), <<line_terminator>>>> ELSE out

LineTerminator(a) == IF a.zero_terminated THEN "NUL" ELSE "LF"

\* content.split(terminator), one trailing empty record popped
RecordsOf(content, terminator) ==
    LET ls == split(content, <<terminator>>) IN
    IF ls # <<>> /\ ls[Len(ls)] = <<>> THEN SubSeq(ls, 1, Len(ls) - 1) ELSE ls

\* the processor call of the loop body for one record
ProcessRecord(a, p, line) ==
    IF Truthy(a.bytes) THEN process_bytes(line, Val(p.bytes), a.complement)
    ELSE IF Truthy(a.characters) THEN process_chars(line, Val(p.characters), a.complement)
    ELSE process_fields(line, Val(p.fields),
                        IF a.delimiter # None THEN Val(a.delimiter) ELSE <<"TAB">>,
                        a.output_delimiter, a.only_delimited, a.complement)

\* the arguments of that call
CallOf(a, p, line) ==
    IF Truthy(a.bytes)
    THEN [fn |-> "process_bytes", line |-> line, ranges |-> Val(p.bytes),
          complement |-> a.complement, delimiter |-> None,
          output_delimiter |-> None, only_delimited |-> FALSE]
    ELSE IF Truthy(a.characters)
    THEN [fn |-> "process_chars", line |-> line, ranges |-> Val(p.characters),
          complement |-> a.complement, delimiter |-> None,
          output_delimiter |-> None, only_delimited |-> FALSE]
    ELSE [fn |-> "process_fields", line |-> line, ranges |-> Val(p.fields),
          complement |-> a.complement,
          delimiter |-> Some(IF a.delimiter # None THEN Val(a.delimiter)
                             ELSE <<"TAB">>),
          output_delimiter |-> a.output_delimiter,
          only_delimited |-> a.only_delimited]

\* the finally clause: every source but standard input is closed
CloseAll(fs) ==
    [i \in DOMAIN fs |-> IF fs[i].arg = StdinArg THEN fs[i]
                         ELSE [fs[i] EXCEPT !.closed = TRUE]]

Handle(f) == [arg |-> f, closed |-> FALSE]

HelpOrVersion ==
    /\ pc = "start"
    /\ args.help \/ args.version
    /\ IF args.help
       THEN stdout' = Append(stdout, Usage) /\ pc' = "exit_help"
       ELSE stdout' = stdout \o <<VERSION, <<"LF">>>> /\ pc' = "exit_version"
    /\ UNCHANGED <<args, parsed, files, fidx, lines, stdin, stderr, unitVars, procVars>>

CheckMode ==
    /\ pc = "start"
    /\ ~args.help /\ ~args.version
    /\ IF ~(Truthy(args.bytes) \/ Truthy(args.characters) \/ Truthy(args.fields))
       THEN LET w == WriteError(stdout, stderr, NoModeMessage) IN
            /\ stdout' = w.stdout
            /\ stderr' = w.stderr
            /\ pc' = "exit_no_mode"
       ELSE /\ pc' = "parse"
            /\ UNCHANGED <<stdout, stderr>>
    /\ UNCHANGED <<args, parsed, files, fidx, lines, stdin, unitVars, procVars>>

ParseLists ==
    /\ pc = "parse"
    /\ LET b == IF Truthy(args.bytes) THEN Some(parse_list(Val(args.bytes))) ELSE None
           c == IF Truthy(args.characters) THEN Some(parse_list(Val(args.characters)))
                ELSE None
           f == IF Truthy(args.fields) THEN Some(parse_list(Val(args.fields))) ELSE None
           failed == \E r \in {b, c, f} : r # None /\ Val(r).raised # "none"
           ranges_of(r) == IF r = None THEN None ELSE Val(r).value
       IN IF failed
          THEN /\ pc' = "exit_parse_error"
               /\ stderr' = Append(stderr, Traceback("ValueError"))
               /\ UNCHANGED <<parsed, fidx>>
          ELSE /\ parsed' = Some([bytes |-> ranges_of(b), characters |-> ranges_of(c),
                                  fields |-> ranges_of(f)])
               /\ pc' = "open"
               /\ fidx' = 1
               /\ UNCHANGED stderr
    /\ UNCHANGED <<args, files, lines, stdin, stdout, unitVars, procVars>>

OpenFile ==
    /\ pc = "open"
    /\ IF Len(args.files) = 0
       THEN /\ files' = <<Handle(StdinArg)>>
            /\ pc' = "read"
            /\ UNCHANGED <<fidx, stdout, stderr>>
       ELSE LET f == args.files[fidx] IN
            IF f.name # "-" /\ f.content = None
            THEN LET w == WriteError(stdout, stderr, OpenErrorMessage) IN
                 /\ stdout' = w.stdout
                 /\ stderr' = w.stderr
                 /\ pc' = "exit_open_error"
                 /\ UNCHANGED <<files, fidx>>
            ELSE /\ files' = Append(files, Handle(f))
                 /\ IF fidx = Len(args.files)
                    THEN pc' = "read" /\ fidx' = 1
                    ELSE pc' = "open" /\ fidx' = fidx + 1
                 /\ UNCHANGED <<stdout, stderr>>
    /\ UNCHANGED <<args, parsed, lines, stdin, unitVars, procVars>>

ReadFile ==
    /\ pc = "read"
    /\ LET f == files[fidx].arg
           content == IF f = StdinArg
                      THEN (IF stdin.eof THEN <<>> ELSE stdin.content)
                      ELSE Val(f.content)
       IN /\ lines' = RecordsOf(content, LineTerminator(args))
          /\ stdin' = IF f = StdinArg THEN [stdin EXCEPT !.eof = TRUE] ELSE stdin
    /\ pc' = "process"
    /\ UNCHANGED <<args, parsed, files, fidx, stdout, stderr, unitVars, procVars>>

ProcessLine ==
    /\ pc = "process"
    /\ lines # <<>>
    /\ LET line == Head(lines)
           processed == ProcessRecord(args, Val(parsed), line)
       IN /\ call' = Some(CallOf(args, Val(parsed), line))
          /\ result' = processed
          /\ IF processed.raised # "none"
             THEN /\ pc' = "exit_index_error"
                  /\ files' = CloseAll(files)
                  /\ stderr' = Append(stderr, Traceback(processed.raised))
                  /\ UNCHANGED <<stdout, lines>>
             ELSE /\ stdout' = Emit(stdout, processed.value, LineTerminator(args))
                  /\ lines' = Tail(lines)
                  /\ UNCHANGED <<pc, files, stderr>>
    /\ UNCHANGED <<args, parsed, fidx, stdin, unitVars>>

NextSource ==
    /\ pc = "process"
    /\ lines = <<>>
    /\ IF fidx < Len(files)
       THEN fidx' = fidx + 1 /\ pc' = "read" /\ UNCHANGED files
       ELSE files' = CloseAll(files) /\ pc' = "done" /\ UNCHANGED fidx
    /\ UNCHANGED <<args, parsed, lines, stdin, stdout, stderr, unitVars, procVars>>

Next ==
    \/ HelpOrVersion
    \/ CheckMode
    \/ ParseLists
    \/ OpenFile
    \/ ReadFile
    \/ ProcessLine
    \/ NextSource

Spec == Init /\ [][Next]_vars

(***************************************************************************)
(* Properties                                                              *)
(***************************************************************************)
Built == selection # None /\ comp_in = None
Called(fn) == call # None /\ Val(call).fn = fn

\* C1: for every string parse_list accepts and every length n, the selection
\* build_selection returns holds no position below 1 and none above n.
C1_SelectionWithinRecord ==
    Built => Val(selection) \subseteq 1..length

\* C2: no processor call raises, and every position a processor uses to index
\* the record lies in [1, length].
C2_NoProcessorFails ==
    (call # None /\ result # None) =>
        /\ result.raised = "none"
        /\ result.indexed \subseteq 1..result.length

\* C3: for S a subset of {1..n}, the complement of S holds exactly the
\* positions of {1..n} that S lacks, and complementing it again gives S back.
C3_ComplementInvolution ==
    (comp_in # None /\ Val(comp_in) \subseteq 1..length) =>
        /\ Val(selection) \subseteq 1..length
        /\ \A i \in 1..length : (i \in Val(selection)) <=> (i \notin Val(comp_in))
        /\ complement_selection(Val(selection), length) = Val(comp_in)

C3_Witness ==
    /\ comp_in = Some({1, MaxLen})
    /\ length = MaxLen
    /\ selection = Some((2..(MaxLen - 1)))

\* C4: process_fields returns a record without the delimiter exactly as given
\* when only_delimited is false, whatever the ranges, the complement flag and
\* the output delimiter are.
C4_PassThrough ==
    (/\ Called("process_fields")
     /\ ~Contains(Val(call).line, Val(Val(call).delimiter))
     /\ ~Val(call).only_delimited) =>
        /\ result.raised = "none"
        /\ result.value = Some(Val(call).line)

C4_Witness ==
    /\ Called("process_fields")
    /\ ~Contains(Val(call).line, Val(Val(call).delimiter))
    /\ ~Val(call).only_delimited
    /\ Val(call).line = <<"a", "eacute">>
    /\ Val(call).complement
    /\ Val(call).output_delimiter # None
    /\ Val(call).ranges = <<<<2, None>>>>
    /\ result.value = Some(<<"a", "eacute">>)

\* C5: in field mode a record without the delimiter, with only_delimited set,
\* gives the 'no output' outcome and the run writes nothing for it; a record
\* with the delimiter whose selection is empty gives the empty string and the
\* run writes that string and exactly one terminator for it.
C5_SuppressedIsNotEmpty ==
    [][(pc = "process" /\ lines # <<>> /\ FieldMode(args)) =>
        LET line == Head(lines)
            delimiter == IF args.delimiter # None THEN Val(args.delimiter)
                         ELSE <<"TAB">>
            count == Len(split(line, delimiter))
            sel == Selected(Val(Val(parsed).fields), count, args.complement)
        IN /\ (~Contains(line, delimiter) /\ args.only_delimited) =>
                (result'.value = None /\ stdout' = stdout)
           /\ (Contains(line, delimiter) /\ sel = {}) =>
                /\ result'.value = Some(<<>>)
                /\ stdout' = stdout \o <<<<>>, <<LineTerminator(args)>>>>]_vars

C5_Witness ==
    /\ pc = "done"
    /\ FieldMode(args)
    /\ args.only_delimited
    /\ args.files = <<FileArg(<<"a", "TAB", "b", "LF", "LF">>)>>
    /\ args.delimiter = None
    /\ ~args.zero_terminated
    /\ result.value = None
    /\ stdout = <<<<>>, <<"LF">>>>

\* C6: when the run ends because no mode was given, because a range list does
\* not parse or because a named file cannot be opened, nothing was written to
\* standard output, also not for the sources opened before the failing one.
C6_FatalStartupNoOutput ==
    pc \in {"exit_no_mode", "exit_parse_error", "exit_open_error"} => stdout = <<>>

C6_Witness ==
    /\ pc = "exit_open_error"
    /\ Len(files) = 1
    /\ files[1].arg = FileArg(<<"a", "TAB", "b", "LF", "LF">>)
    /\ stderr # <<>>

\* the content the i-th source of the run delivers: standard input is read to
\* its end by the first source that names it
SourceContent(i) ==
    LET srcs == IF args.files = <<>> THEN <<StdinArg>> ELSE args.files IN
    IF srcs[i] = StdinArg
    THEN (IF \E j \in 1..(i - 1) : srcs[j] = StdinArg THEN <<>> ELSE stdin.content)
    ELSE Val(srcs[i].content)

RECURSIVE RecordsFrom(_)
RecordsFrom(i) ==
    LET n == IF args.files = <<>> THEN 1 ELSE Len(args.files) IN
    IF i > n THEN <<>>
    ELSE RecordsOf(SourceContent(i), LineTerminator(args)) \o RecordsFrom(i + 1)

Suppressed(line) ==
    LET r == ProcessRecord(args, Val(parsed), line) IN
    r.raised = "none" /\ r.value = None

\* C7: the output of a run is, for each record of each source in argument
\* order (one trailing empty record per source discarded), the processed
\* string followed by the terminator; the terminators written are as many as
\* the records that were not suppressed.
C7_OutputShape ==
    pc \in {"done", "exit_index_error"} =>
        LET kept == SelectSeq(RecordsFrom(1), LAMBDA l : ~Suppressed(l)) IN
        /\ Len(stdout) = 2 * Len(kept)
        /\ \A k \in 1..Len(kept) :
            LET r == ProcessRecord(args, Val(parsed), kept[k]) IN
            /\ stdout[2 * k] = <<LineTerminator(args)>>
            /\ r.raised = "none" => stdout[2 * k - 1] = Val(r.value)

\* the parts of a list string that are a bare '-', and the others
IsBareDash(part) == strip(part) = <<"-">>
OtherParts(s) == SelectSeq(split(s, <<",">>), LAMBDA part : ~IsBareDash(part))
HasBareDash(s) == \E i \in DOMAIN split(s, <<",">>) : IsBareDash(split(s, <<",">>)[i])
WithoutBareDash(s) ==
    IF OtherParts(s) = <<>> THEN Return(<<>>)
    ELSE parse_list(join(<<",">>, OtherParts(s)))

\* C8: a list that is a bare '-' parses to the empty range list and selects
\* nothing for every length; a bare '-' among other tokens leaves the range
\* list, and the selection built from it, as the other tokens alone give them.
C8_BareDashSelectsNothing ==
    (list_str # None /\ HasBareDash(Val(list_str))) =>
        /\ ranges = WithoutBareDash(Val(list_str))
        /\ Val(list_str) = <<"-">> => ranges = Return(<<>>)
        /\ (Built /\ Val(list_str) = <<"-">>) => Val(selection) = {}
        /\ Built =>
             Val(selection) =
                build_selection(Val(WithoutBareDash(Val(list_str)).value), length)

C8_Witness ==
    /\ list_str = Some(<<"-", ",", "2">>)
    /\ Built
    /\ length = MaxLen
    /\ selection = Some({2})

\* the elements of the record at the positions of P, in ascending order
ElementsAt(record, P) ==
    LET order == sorted({i \in P : 1 <= i /\ i <= Len(record)})
    IN [k \in 1..Len(order) |-> record[order[k]]]

\* C9: in character mode, and in field mode on a record with the delimiter,
\* the output is the characters or fields at the positions of the selection
\* (of its complement when asked), each once, in ascending position order;
\* field mode joins them with the output delimiter, the input delimiter when
\* none is set.
C9_SelectedInRecordOrder ==
    /\ Called("process_chars") =>
        LET c == Val(call) IN
        /\ result.raised = "none"
        /\ result.value =
             Some(ElementsAt(c.line, Selected(c.ranges, Len(c.line), c.complement)))
    /\ (Called("process_fields") /\ Contains(Val(call).line, Val(Val(call).delimiter))) =>
        LET c == Val(call)
            fields == split(c.line, Val(c.delimiter))
            out_delim == IF c.output_delimiter = None THEN Val(c.delimiter)
                         ELSE Val(c.output_delimiter)
        IN /\ result.raised = "none"
           /\ result.value =
                Some(join(out_delim,
                          ElementsAt(fields,
                                     Selected(c.ranges, Len(fields), c.complement))))

\* the single rule: the end defaults to n when open, is clamped to n, and
\* [start, end] is included iff start <= end
UnifiedRule(rs, n) ==
    UNION {LET start == rs[i][1]
               end == IF rs[i][2] = None THEN n ELSE Min(Val(rs[i][2]), n)
           IN IF start <= end THEN start..end ELSE {} : i \in DOMAIN rs}

\* C10: build_selection returns what the single rule returns, for every range
\* list and length, also for length 0 with open-ended ranges; the fallback
\* branch adds no position the main branch does not add; a range with
\* start > n or an inverted concrete range contributes nothing.
C10_UnifiedRule ==
    Built =>
        LET rs == Val(ranges.value) IN
        /\ Val(selection) = UnifiedRule(rs, length)
        /\ \A i \in DOMAIN rs :
            LET start == rs[i][1]
                end == rs[i][2]
                e == ClampedEnd(end, length)
            IN /\ FallbackPositions(start, e, length) \subseteq
                    (IF start <= Val(e) /\ Val(e) <= length THEN start..Val(e) ELSE {})
               /\ (start > length \/ (end # None /\ start > Val(end))) =>
                    RangePositions(start, end, length) = {}

C10_Witness ==
    /\ Built
    /\ length = 0
    /\ Val(ranges.value) = <<<<1, None>>>>
    /\ selection = Some({})

====
